---- MODULE Spec2Model ----
(***************************************************************************)
(* Admission control / batch dispatch of bot.py: the shared counter        *)
(* ACTIVE_USERS, the overflow queue WAITING_QUEUE, the guard BATCH_LOCK,   *)
(* the gate inside search(), the dispatch loop batch_worker() and the      *)
(* per-request unit process_user_request().                                *)
(*                                                                         *)
(* Every invocation of search() is a task of its own.  Tasks interleave at *)
(* every await and, between the entry and the exit of `async with          *)
(* BATCH_LOCK`, at every statement; this includes every interleaving the   *)
(* asyncio event loop can produce (it switches tasks at awaits only).      *)
(***************************************************************************)
EXTENDS Integers, Sequences, FiniteSets, TLC

\* bot.py:21 sets BATCH_SIZE = 30; the model runs with a small capacity.
BATCH_SIZE == 2
\* Number of search() invocations that reach the gate in one behaviour.
MaxRequests == 4
\* Number of distinct user ids (update.effective_user.id).
NumUsers == 2
\* Number of requests in which an awaited call (the wrapped work, the queue
\* notification) may raise.
MaxFaults == 1

Requests == 1..MaxRequests
Users == 1..NumUsers
\* Task identifier of batch_worker; a search()/process_user_request() task is
\* identified by its request number.  0 is "no task".
WorkerTask == MaxRequests + 1

VARIABLES
    ACTIVE_USERS,      \* bot.py:25
    WAITING_QUEUE,     \* bot.py:26, sequence of entries, head first
    BATCH_LOCK,        \* bot.py:27, [owner, waiters]
    pc,                \* position of every request's task
    position,          \* local `position` of search() (0: not set)
    outcome,           \* how the wrapped work of a request exited
    wpc,               \* position of batch_worker
    slots,             \* local `slots` of batch_worker
    left,              \* iterations of `for _ in range(slots)` still to run
    users_to_process,  \* local `users_to_process` of batch_worker
    started,           \* entries of users_to_process the second loop has handled
    enqueued,          \* history: the request of every entry ever put, in order
    popped,            \* history: the request of every entry ever got, in order
    admits,            \* history: increments of ACTIVE_USERS made for a request
    releases,          \* history: decrements of ACTIVE_USERS made by a request
    put_index,         \* history: where a request's entry stood right after its put
    work_run,          \* history: requests whose delivery code (1929-1971) has run
    notify_raised,     \* history: requests whose queue notification (1916) raised
    cycle0             \* history: ACTIVE_USERS and qsize at the test of the current cycle

vars == <<ACTIVE_USERS, WAITING_QUEUE, BATCH_LOCK, pc, position, outcome,
          wpc, slots, left, users_to_process, started, enqueued, popped, admits, releases,
          put_index, work_run, notify_raised, cycle0>>

reqVars == <<pc, position, outcome>>
workerVars == <<wpc, slots, left, users_to_process, started, cycle0>>

-----------------------------------------------------------------------------
(* asyncio.Lock: FIFO waiters, the lock passes to the first waiter on release *)

\* Variant of Acquire: a task that has to wait goes to the front of the line.
Acquire_front(L, t) ==
    IF L.owner = 0 /\ L.waiters = <<>>
    THEN [L EXCEPT !.owner = t]
    ELSE [L EXCEPT !.waiters = <<t>> \o @]

\* `async with BATCH_LOCK` entry: task t takes the lock if it is free and
\* nobody waits, else it joins the waiters.
Acquire(L, t) ==
    IF L.owner = 0 /\ L.waiters = <<>>
    THEN [L EXCEPT !.owner = t]
    ELSE [L EXCEPT !.waiters = Append(@, t)]

\* `async with BATCH_LOCK` exit: the first waiter, if any, becomes the owner.
Release(L) ==
    IF L.waiters = <<>>
    THEN [L EXCEPT !.owner = 0]
    ELSE [owner |-> Head(L.waiters), waiters |-> Tail(L.waiters)]

Holds(t) == BATCH_LOCK.owner = t

\* Task t waits for the lock.
Waiting(t) == \E k \in 1..Len(BATCH_LOCK.waiters) : BATCH_LOCK.waiters[k] = t

\* In lock value L, task t stands in the line of waiters in front of task u.
Ahead(L, t, u) ==
    \E i, j \in 1..Len(L.waiters) :
        i < j /\ L.waiters[i] = t /\ L.waiters[j] = u

-----------------------------------------------------------------------------
Init ==
    /\ ACTIVE_USERS = 0
    /\ WAITING_QUEUE = <<>>
    /\ BATCH_LOCK = [owner |-> 0, waiters |-> <<>>]
    /\ pc = [r \in Requests |-> "idle"]
    /\ position = [r \in Requests |-> 0]
    /\ outcome = [r \in Requests |-> "none"]
    /\ wpc = "w_start"
    /\ slots = 0
    /\ left = 0
    /\ users_to_process = <<>>
    /\ started = 0
    /\ enqueued = <<>>
    /\ popped = <<>>
    /\ admits = [r \in Requests |-> 0]
    /\ releases = [r \in Requests |-> 0]
    /\ put_index = [r \in Requests |-> 0]
    /\ work_run = {}
    /\ notify_raised = {}
    /\ cycle0 = [active |-> 0, qsize |-> 0]

-----------------------------------------------------------------------------
(* search(): the gate *)

\* bot.py:1881-1911: request r passed every check before the gate and enters
\* `async with BATCH_LOCK`.  Requests are numbered in the order in which they
\* reach this line.
Arrive(r) ==
    /\ pc[r] = "idle"
    /\ \A q \in Requests : q < r => pc[q] # "idle"
    /\ pc' = [pc EXCEPT ![r] = "s_lock"]
    /\ BATCH_LOCK' = Acquire(BATCH_LOCK, r)
    /\ UNCHANGED <<ACTIVE_USERS, WAITING_QUEUE, position, outcome, workerVars,
                   enqueued, popped, admits, releases, put_index, work_run, notify_raised>>

\* bot.py:1882-1907: the early returns of search() before the gate: a command
\* text, maintenance mode for a non-owner, a failed subscription check, a
\* non-owner inside the cooldown, an unknown movie code.
RejectReasons == {"command", "maintenance", "force_join", "cooldown", "no_movie"}

\* Variant of Reject: the checks run after `async with BATCH_LOCK` is entered
\* and the early return happens while the lock is requested.
Reject_after_lock(r, why) ==
    /\ pc[r] = "idle"
    /\ \A q \in Requests : q < r => pc[q] # "idle"
    /\ why \in RejectReasons
    /\ pc' = [pc EXCEPT ![r] = "rejected"]
    /\ BATCH_LOCK' = Acquire(BATCH_LOCK, r)
    /\ UNCHANGED <<ACTIVE_USERS, WAITING_QUEUE, position, outcome, workerVars,
                   enqueued, popped, admits, releases, put_index, work_run, notify_raised>>

\* bot.py:1882-1907: one of the checks before the gate fails; search() sends
\* its reply, if any, and returns.  Line 1911 is not reached.
Reject(r, why) ==
    /\ pc[r] = "idle"
    /\ \A q \in Requests : q < r => pc[q] # "idle"
    /\ why \in RejectReasons
    /\ pc' = [pc EXCEPT ![r] = "rejected"]
    /\ UNCHANGED <<ACTIVE_USERS, WAITING_QUEUE, BATCH_LOCK, position, outcome, workerVars,
                   enqueued, popped, admits, releases, put_index, work_run, notify_raised>>

\* Variant of GateFull: the gate queues while one slot is still free.
GateFull_early == ACTIVE_USERS >= BATCH_SIZE - 1

\* Variant of GateFull: the comparison is strict.
GateFull_strict == ACTIVE_USERS > BATCH_SIZE

\* bot.py:1912: the gate's test.
GateFull == ACTIVE_USERS >= BATCH_SIZE

\* Variant of SearchCheck: the test runs without waiting for the lock.
SearchCheck_unlocked(r) ==
    /\ pc[r] = "s_lock"
    /\ pc' = [pc EXCEPT ![r] = IF ACTIVE_USERS >= BATCH_SIZE THEN "s_put" ELSE "s_inc"]
    /\ UNCHANGED <<ACTIVE_USERS, WAITING_QUEUE, BATCH_LOCK, position, outcome,
                   workerVars, enqueued, popped, admits, releases, put_index, work_run, notify_raised>>

\* Variant of SearchCheck: a request is also queued when others are waiting.
SearchCheck_queue_first(r) ==
    /\ pc[r] = "s_lock"
    /\ Holds(r)
    /\ pc' = [pc EXCEPT ![r] = IF GateFull \/ WAITING_QUEUE # <<>>
                                THEN "s_put" ELSE "s_inc"]
    /\ UNCHANGED <<ACTIVE_USERS, WAITING_QUEUE, BATCH_LOCK, position, outcome,
                   workerVars, enqueued, popped, admits, releases, put_index, work_run, notify_raised>>

\* bot.py:1912: if ACTIVE_USERS >= BATCH_SIZE
SearchCheck(r) ==
    /\ pc[r] = "s_lock"
    /\ Holds(r)
    /\ pc' = [pc EXCEPT ![r] = IF GateFull THEN "s_put" ELSE "s_inc"]
    /\ UNCHANGED <<ACTIVE_USERS, WAITING_QUEUE, BATCH_LOCK, position, outcome,
                   workerVars, enqueued, popped, admits, releases, put_index, work_run, notify_raised>>

\* Variant of QueuePut: the entry goes to the front (a LIFO queue).
QueuePut_front(q, e) == <<e>> \o q

\* asyncio.Queue.put on the unbounded queue: append at the tail.
QueuePut(q, e) == Append(q, e)

\* Variant of SearchPut: the requester is also counted as admitted.
SearchPut_counts(r, u) ==
    /\ pc[r] = "s_put"
    /\ WAITING_QUEUE' = Append(WAITING_QUEUE, [user |-> u, req |-> r])
    /\ enqueued' = Append(enqueued, r)
    /\ put_index' = [put_index EXCEPT ![r] = Len(WAITING_QUEUE')]
    /\ ACTIVE_USERS' = ACTIVE_USERS + 1
    /\ pc' = [pc EXCEPT ![r] = "s_qsize"]
    /\ UNCHANGED <<BATCH_LOCK, position, outcome, workerVars,
                   popped, admits, releases, work_run, notify_raised>>

\* Variant of SearchPut: a user id already in the queue is not put again.
SearchPut_dedup(r, u) ==
    /\ pc[r] = "s_put"
    /\ IF \E k \in 1..Len(WAITING_QUEUE) : WAITING_QUEUE[k].user = u
       THEN UNCHANGED <<WAITING_QUEUE, enqueued, put_index>>
       ELSE /\ WAITING_QUEUE' = QueuePut(WAITING_QUEUE, [user |-> u, req |-> r])
            /\ enqueued' = Append(enqueued, r)
            /\ put_index' = [put_index EXCEPT ![r] = Len(WAITING_QUEUE')]
    /\ pc' = [pc EXCEPT ![r] = "s_qsize"]
    /\ UNCHANGED <<ACTIVE_USERS, BATCH_LOCK, position, outcome, workerVars,
                   popped, admits, releases, work_run, notify_raised>>

\* bot.py:1913: await WAITING_QUEUE.put(update.effective_user.id); u is the
\* user id of request r, read here for the first time after the gate.
SearchPut(r, u) ==
    /\ pc[r] = "s_put"
    /\ WAITING_QUEUE' = QueuePut(WAITING_QUEUE, [user |-> u, req |-> r])
    /\ enqueued' = Append(enqueued, r)
    /\ put_index' = [put_index EXCEPT ![r] =
                        CHOOSE k \in 1..Len(WAITING_QUEUE') : WAITING_QUEUE'[k].req = r]
    /\ pc' = [pc EXCEPT ![r] = "s_qsize"]
    /\ UNCHANGED <<ACTIVE_USERS, BATCH_LOCK, position, outcome, workerVars,
                   popped, admits, releases, work_run, notify_raised>>

\* Variant of SearchQsize: the position is counted from 0.
SearchQsize_zero_based(r) ==
    /\ pc[r] = "s_qsize"
    /\ position' = [position EXCEPT ![r] = Len(WAITING_QUEUE) - 1]
    /\ pc' = [pc EXCEPT ![r] = "s_notify"]
    /\ UNCHANGED <<ACTIVE_USERS, WAITING_QUEUE, BATCH_LOCK, outcome, workerVars,
                   enqueued, popped, admits, releases, put_index, work_run, notify_raised>>

\* bot.py:1914: position = WAITING_QUEUE.qsize()
SearchQsize(r) ==
    /\ pc[r] = "s_qsize"
    /\ position' = [position EXCEPT ![r] = Len(WAITING_QUEUE)]
    /\ pc' = [pc EXCEPT ![r] = "s_notify"]
    /\ UNCHANGED <<ACTIVE_USERS, WAITING_QUEUE, BATCH_LOCK, outcome, workerVars,
                   enqueued, popped, admits, releases, put_index, work_run, notify_raised>>

\* Requests in which an awaited call has raised so far: the wrapped work
\* exited by an exception, or the queue notification raised.
Faulty ==
    {r \in Requests : pc[r] = "s_except" \/ outcome[r] \notin {"none", "ok"}}
        \cup notify_raised

\* Variant of SearchNotify: a raising reply_text ends search() with the lock
\* still owned (an acquire without a release on the exception path).
SearchNotify_keeps_lock(r, ok) ==
    /\ pc[r] = "s_notify"
    /\ ok \/ Cardinality(Faulty) < MaxFaults
    /\ IF ok
       THEN /\ pc' = [pc EXCEPT ![r] = "s_sleep5"]
            /\ UNCHANGED notify_raised
       ELSE /\ pc' = [pc EXCEPT ![r] = "queued"]
            /\ notify_raised' = notify_raised \cup {r}
    /\ UNCHANGED <<ACTIVE_USERS, WAITING_QUEUE, BATCH_LOCK, position, outcome, workerVars,
                   enqueued, popped, admits, releases, put_index, work_run>>

\* bot.py:1916-1921: await update.message.reply_text(...), inside the lock.
\* It returns (ok) or raises; raising leaves the `async with`, which releases
\* the lock, and ends search() with the entry still in the queue.
SearchNotify(r, ok) ==
    /\ pc[r] = "s_notify"
    /\ ok \/ Cardinality(Faulty) < MaxFaults
    /\ IF ok
       THEN /\ pc' = [pc EXCEPT ![r] = "s_sleep5"]
            /\ UNCHANGED <<BATCH_LOCK, notify_raised>>
       ELSE /\ pc' = [pc EXCEPT ![r] = "queued"]
            /\ BATCH_LOCK' = Release(BATCH_LOCK)
            /\ notify_raised' = notify_raised \cup {r}
    /\ UNCHANGED <<ACTIVE_USERS, WAITING_QUEUE, position, outcome, workerVars,
                   enqueued, popped, admits, releases, put_index, work_run>>

\* Variant of SearchSleepDelete: the early return leaves the lock held (manual
\* acquire without a release on this path).
SearchSleepDelete_keeps_lock(r) ==
    /\ pc[r] = "s_sleep5"
    /\ pc' = [pc EXCEPT ![r] = "queued"]
    /\ UNCHANGED <<ACTIVE_USERS, WAITING_QUEUE, BATCH_LOCK, position, outcome,
                   workerVars, enqueued, popped, admits, releases, put_index, work_run, notify_raised>>

\* Variant of SearchSleepDelete: deleting the notification also takes the
\* requester's entry out of the queue.
SearchSleepDelete_drops_entry(r) ==
    /\ pc[r] = "s_sleep5"
    /\ pc' = [pc EXCEPT ![r] = "queued"]
    /\ WAITING_QUEUE' = SelectSeq(WAITING_QUEUE, LAMBDA e : e.req # r)
    /\ BATCH_LOCK' = Release(BATCH_LOCK)
    /\ UNCHANGED <<ACTIVE_USERS, position, outcome, workerVars,
                   enqueued, popped, admits, releases, put_index, work_run, notify_raised>>

\* bot.py:1923-1925: await asyncio.sleep(5) and safe_delete_message (which
\* swallows every error, 548-552), both inside the lock, then return, which
\* leaves the `async with` and releases the lock.
SearchSleepDelete(r) ==
    /\ pc[r] = "s_sleep5"
    /\ pc' = [pc EXCEPT ![r] = "queued"]
    /\ BATCH_LOCK' = Release(BATCH_LOCK)
    /\ UNCHANGED <<ACTIVE_USERS, WAITING_QUEUE, position, outcome, workerVars,
                   enqueued, popped, admits, releases, put_index, work_run, notify_raised>>

\* Variant of SearchAdmit: the try block is nested in the `async with`, the
\* work starts with the lock still owned.
SearchAdmit_nested(r) ==
    /\ pc[r] = "s_inc"
    /\ ACTIVE_USERS' = ACTIVE_USERS + 1
    /\ admits' = [admits EXCEPT ![r] = @ + 1]
    /\ pc' = [pc EXCEPT ![r] = "s_work"]
    /\ UNCHANGED <<WAITING_QUEUE, BATCH_LOCK, position, outcome, workerVars,
                   enqueued, popped, releases, put_index, work_run, notify_raised>>

\* bot.py:1927: ACTIVE_USERS += 1, then the end of the `async with`.
SearchAdmit(r) ==
    /\ pc[r] = "s_inc"
    /\ ACTIVE_USERS' = ACTIVE_USERS + 1
    /\ admits' = [admits EXCEPT ![r] = @ + 1]
    /\ BATCH_LOCK' = Release(BATCH_LOCK)
    /\ pc' = [pc EXCEPT ![r] = "s_work"]
    /\ UNCHANGED <<WAITING_QUEUE, position, outcome, workerVars,
                   enqueued, popped, releases, put_index, work_run, notify_raised>>

\* The ways the wrapped work can leave its try block: it returns, it raises an
\* Exception (caught by `except Exception`), or it raises a BaseException that
\* `except Exception` does not match (asyncio.CancelledError).
Exits == {"ok", "exception", "base"}

\* bot.py:1929-1971, 1975-1976: the try block of search() (the wrapped work)
\* ends.  An Exception enters the except handler; a return or a BaseException
\* enters the finally block, whose first statement is `async with BATCH_LOCK`.
SearchWork(r, x) ==
    /\ pc[r] = "s_work"
    /\ x = "ok" \/ Cardinality(Faulty) < MaxFaults
    /\ IF x = "exception"
       THEN /\ pc' = [pc EXCEPT ![r] = "s_except"]
            /\ UNCHANGED <<outcome, BATCH_LOCK>>
       ELSE /\ pc' = [pc EXCEPT ![r] = "s_flock"]
            /\ outcome' = [outcome EXCEPT ![r] = IF x = "ok" THEN "ok" ELSE "uncaught"]
            /\ BATCH_LOCK' = Acquire(BATCH_LOCK, r)
    /\ work_run' = work_run \cup {r}
    /\ UNCHANGED <<ACTIVE_USERS, WAITING_QUEUE, position, workerVars,
                   enqueued, popped, admits, releases, put_index, notify_raised>>

\* Variant of SearchExcept: the decrement sits at the end of the handler
\* instead of a finally block, so a raising reply_text ends the task before it.
SearchExcept_no_finally(r, ok) ==
    /\ pc[r] = "s_except"
    /\ outcome' = [outcome EXCEPT ![r] = IF ok THEN "caught" ELSE "handler_raised"]
    /\ IF ok
       THEN /\ pc' = [pc EXCEPT ![r] = "s_flock"]
            /\ BATCH_LOCK' = Acquire(BATCH_LOCK, r)
       ELSE /\ pc' = [pc EXCEPT ![r] = "done"]
            /\ UNCHANGED BATCH_LOCK
    /\ UNCHANGED <<ACTIVE_USERS, WAITING_QUEUE, position, workerVars,
                   enqueued, popped, admits, releases, put_index, work_run, notify_raised>>

\* bot.py:1972-1976: the except handler; its reply_text returns (ok) or raises.
\* Either way control passes to the finally block and its `async with`.
SearchExcept(r, ok) ==
    /\ pc[r] = "s_except"
    /\ pc' = [pc EXCEPT ![r] = "s_flock"]
    /\ outcome' = [outcome EXCEPT ![r] = IF ok THEN "caught" ELSE "handler_raised"]
    /\ BATCH_LOCK' = Acquire(BATCH_LOCK, r)
    /\ UNCHANGED <<ACTIVE_USERS, WAITING_QUEUE, position, workerVars,
                   enqueued, popped, admits, releases, put_index, work_run, notify_raised>>

\* bot.py:1977: ACTIVE_USERS -= 1, then the end of the `async with`.
SearchRelease(r) ==
    /\ pc[r] = "s_flock"
    /\ Holds(r)
    /\ ACTIVE_USERS' = ACTIVE_USERS - 1
    /\ releases' = [releases EXCEPT ![r] = @ + 1]
    /\ BATCH_LOCK' = Release(BATCH_LOCK)
    /\ pc' = [pc EXCEPT ![r] = "done"]
    /\ UNCHANGED <<WAITING_QUEUE, position, outcome, workerVars,
                   enqueued, popped, admits, put_index, work_run, notify_raised>>

-----------------------------------------------------------------------------
(* process_user_request(): the unit started by the dispatch loop *)

\* bot.py:465-470: try: await asyncio.sleep(0.1); an Exception is printed, a
\* BaseException passes through; all three exits reach the finally block and
\* its `async with BATCH_LOCK`.
ProcessWork(r, x) ==
    /\ pc[r] = "p_work"
    /\ x = "ok" \/ Cardinality(Faulty) < MaxFaults
    /\ pc' = [pc EXCEPT ![r] = "p_flock"]
    /\ outcome' = [outcome EXCEPT ![r] = IF x = "ok" THEN "ok"
                                          ELSE IF x = "base" THEN "uncaught"
                                          ELSE "caught"]
    /\ BATCH_LOCK' = Acquire(BATCH_LOCK, r)
    /\ UNCHANGED <<ACTIVE_USERS, WAITING_QUEUE, position, workerVars,
                   enqueued, popped, admits, releases, put_index, work_run, notify_raised>>

\* Variant of ProcessRelease: the unit ends without the decrement.
ProcessRelease_no_decrement(r) ==
    /\ pc[r] = "p_flock"
    /\ Holds(r)
    /\ releases' = [releases EXCEPT ![r] = @ + 1]
    /\ BATCH_LOCK' = Release(BATCH_LOCK)
    /\ pc' = [pc EXCEPT ![r] = "done"]
    /\ UNCHANGED <<ACTIVE_USERS, WAITING_QUEUE, position, outcome, workerVars,
                   enqueued, popped, admits, put_index, work_run, notify_raised>>

\* bot.py:471: ACTIVE_USERS -= 1, then the end of the `async with`.
ProcessRelease(r) ==
    /\ pc[r] = "p_flock"
    /\ Holds(r)
    /\ ACTIVE_USERS' = ACTIVE_USERS - 1
    /\ releases' = [releases EXCEPT ![r] = @ + 1]
    /\ BATCH_LOCK' = Release(BATCH_LOCK)
    /\ pc' = [pc EXCEPT ![r] = "done"]
    /\ UNCHANGED <<WAITING_QUEUE, position, outcome, workerVars,
                   enqueued, popped, admits, put_index, work_run, notify_raised>>

-----------------------------------------------------------------------------
(* batch_worker(): the dispatch loop *)

\* bot.py:440-441: the first iteration: while True: async with BATCH_LOCK.
WorkerAcquire ==
    /\ wpc = "w_start"
    /\ wpc' = "w_lock"
    /\ BATCH_LOCK' = Acquire(BATCH_LOCK, WorkerTask)
    /\ UNCHANGED <<ACTIVE_USERS, WAITING_QUEUE, reqVars, slots, left, users_to_process,
                   started, cycle0, enqueued, popped, admits, releases, put_index, work_run, notify_raised>>

\* bot.py:442: the dispatch loop's test.
WorkerFull == ACTIVE_USERS >= BATCH_SIZE

\* Variant of WorkerCheck: the test runs without waiting for the lock.
WorkerCheck_unlocked ==
    /\ wpc = "w_lock"
    /\ wpc' = IF ACTIVE_USERS >= BATCH_SIZE THEN "w_sleep05" ELSE "w_slots"
    /\ cycle0' = [active |-> ACTIVE_USERS, qsize |-> Len(WAITING_QUEUE)]
    /\ UNCHANGED <<ACTIVE_USERS, WAITING_QUEUE, BATCH_LOCK, reqVars, slots, left,
                   users_to_process, started, enqueued, popped, admits, releases, put_index, work_run, notify_raised>>

\* bot.py:442: if ACTIVE_USERS >= BATCH_SIZE
WorkerCheck ==
    /\ wpc = "w_lock"
    /\ Holds(WorkerTask)
    /\ wpc' = IF WorkerFull THEN "w_sleep05" ELSE "w_slots"
    /\ cycle0' = [active |-> ACTIVE_USERS, qsize |-> Len(WAITING_QUEUE)]
    /\ UNCHANGED <<ACTIVE_USERS, WAITING_QUEUE, BATCH_LOCK, reqVars, slots, left,
                   users_to_process, started, enqueued, popped, admits, releases, put_index, work_run, notify_raised>>

\* bot.py:443-444, 440-441: await asyncio.sleep(0.5) inside the lock, then
\* continue, which leaves the `async with` (releasing the lock) and enters it
\* again at the top of the loop.
WorkerNoCapacity ==
    /\ wpc = "w_sleep05"
    /\ wpc' = "w_lock"
    /\ BATCH_LOCK' = Acquire(Release(BATCH_LOCK), WorkerTask)
    /\ cycle0' = [active |-> 0, qsize |-> 0]
    /\ UNCHANGED <<ACTIVE_USERS, WAITING_QUEUE, reqVars, slots, left, users_to_process,
                   started, enqueued, popped, admits, releases, put_index, work_run, notify_raised>>

\* Variant of FreeSlots: one free slot is never given out.
FreeSlots_minus_one == BATCH_SIZE - ACTIVE_USERS - 1

\* Variant of FreeSlots: the slots are not reduced by the admitted requests.
FreeSlots_ignoring_active == BATCH_SIZE

\* bot.py:446: slots = BATCH_SIZE - ACTIVE_USERS
FreeSlots == BATCH_SIZE - ACTIVE_USERS

\* Variant of WorkerSlots: a cycle takes one entry at most.
WorkerSlots_single ==
    /\ wpc = "w_slots"
    /\ slots' = 1
    /\ left' = 1
    /\ users_to_process' = <<>>
    /\ started' = 0
    /\ wpc' = "w_pop"
    /\ UNCHANGED <<ACTIVE_USERS, WAITING_QUEUE, BATCH_LOCK, reqVars, cycle0,
                   enqueued, popped, admits, releases, put_index, work_run, notify_raised>>

\* bot.py:446-447: slots = ...; users_to_process = []
WorkerSlots ==
    /\ wpc = "w_slots"
    /\ slots' = FreeSlots
    /\ left' = FreeSlots
    /\ users_to_process' = <<>>
    /\ started' = 0
    /\ wpc' = "w_pop"
    /\ UNCHANGED <<ACTIVE_USERS, WAITING_QUEUE, BATCH_LOCK, reqVars, cycle0,
                   enqueued, popped, admits, releases, put_index, work_run, notify_raised>>

\* Variant of QueueGet: a get takes the entry behind the head away as well.
QueueGet_drops_two(q) == IF Len(q) > 1 THEN Tail(Tail(q)) ELSE Tail(q)

\* asyncio.Queue.get_nowait: the head leaves the queue.
QueueGet(q) == Tail(q)

\* Variant of WorkerPop: the entry taken from the queue is dropped, neither
\* counted nor started.
WorkerPop_discards ==
    /\ wpc = "w_pop"
    /\ IF left > 0 /\ WAITING_QUEUE # <<>>
       THEN LET e == Head(WAITING_QUEUE) IN
            /\ WAITING_QUEUE' = QueueGet(WAITING_QUEUE)
            /\ left' = left - 1
            /\ popped' = Append(popped, e.req)
            /\ pc' = [pc EXCEPT ![e.req] = "done"]
            /\ UNCHANGED <<wpc, ACTIVE_USERS, users_to_process, admits>>
       ELSE /\ wpc' = "w_spawn"
            /\ UNCHANGED <<ACTIVE_USERS, WAITING_QUEUE, pc, left, users_to_process,
                           popped, admits>>
    /\ UNCHANGED <<BATCH_LOCK, position, outcome, slots, started, cycle0, enqueued,
                   releases, put_index, work_run, notify_raised>>

\* bot.py:449-455: one iteration of `for _ in range(slots)`: get_nowait,
\* append, ACTIVE_USERS += 1; the loop ends when the range is exhausted or
\* get_nowait raises QueueEmpty (break).
WorkerPop ==
    /\ wpc = "w_pop"
    /\ IF left > 0 /\ WAITING_QUEUE # <<>>
       THEN LET e == Head(WAITING_QUEUE) IN
            /\ WAITING_QUEUE' = QueueGet(WAITING_QUEUE)
            /\ users_to_process' = Append(users_to_process, e)
            /\ ACTIVE_USERS' = ACTIVE_USERS + 1
            /\ left' = left - 1
            /\ popped' = Append(popped, e.req)
            /\ admits' = [admits EXCEPT ![e.req] = @ + 1]
            /\ pc' = [pc EXCEPT ![e.req] = "popped"]
            /\ UNCHANGED wpc
       ELSE /\ wpc' = "w_spawn"
            /\ UNCHANGED <<ACTIVE_USERS, WAITING_QUEUE, pc, left, users_to_process,
                           popped, admits>>
    /\ UNCHANGED <<BATCH_LOCK, position, outcome, slots, started, cycle0, enqueued,
                   releases, put_index, work_run, notify_raised>>

\* Variant of WorkerSpawn: every iteration of the second loop starts the unit
\* of the first entry.
WorkerSpawn_first_only ==
    /\ wpc = "w_spawn"
    /\ IF started < Len(users_to_process)
       THEN /\ pc' = [pc EXCEPT ![users_to_process[1].req] = "p_work"]
            /\ started' = started + 1
            /\ UNCHANGED <<wpc, BATCH_LOCK, slots, left, users_to_process, cycle0>>
       ELSE /\ wpc' = "w_sleep01"
            /\ BATCH_LOCK' = Release(BATCH_LOCK)
            /\ slots' = 0
            /\ left' = 0
            /\ users_to_process' = <<>>
            /\ started' = 0
            /\ cycle0' = [active |-> 0, qsize |-> 0]
            /\ UNCHANGED pc
    /\ UNCHANGED <<ACTIVE_USERS, WAITING_QUEUE, position, outcome,
                   enqueued, popped, admits, releases, put_index, work_run, notify_raised>>

\* Variant of WorkerSpawn: the loop waits inside the `async with` until the
\* units it started have ended.
WorkerSpawn_awaits ==
    /\ wpc = "w_spawn"
    /\ IF started < Len(users_to_process)
       THEN /\ pc' = [pc EXCEPT ![users_to_process[started + 1].req] = "p_work"]
            /\ started' = started + 1
            /\ UNCHANGED <<wpc, BATCH_LOCK, slots, left, users_to_process, cycle0>>
       ELSE /\ \A k \in 1..Len(users_to_process) : pc[users_to_process[k].req] = "done"
            /\ wpc' = "w_sleep01"
            /\ BATCH_LOCK' = Release(BATCH_LOCK)
            /\ slots' = 0
            /\ left' = 0
            /\ users_to_process' = <<>>
            /\ started' = 0
            /\ cycle0' = [active |-> 0, qsize |-> 0]
            /\ UNCHANGED pc
    /\ UNCHANGED <<ACTIVE_USERS, WAITING_QUEUE, position, outcome,
                   enqueued, popped, admits, releases, put_index, work_run, notify_raised>>

\* bot.py:457-460: for user_id in users_to_process: create_task(
\* process_user_request(user_id)), one iteration per step; after the last one
\* the `async with` ends and the lock is released.  The locals are dead after
\* the loop and are reset.
WorkerSpawn ==
    /\ wpc = "w_spawn"
    /\ IF started < Len(users_to_process)
       THEN /\ pc' = [pc EXCEPT ![users_to_process[started + 1].req] = "p_work"]
            /\ started' = started + 1
            /\ UNCHANGED <<wpc, BATCH_LOCK, slots, left, users_to_process, cycle0>>
       ELSE /\ wpc' = "w_sleep01"
            /\ BATCH_LOCK' = Release(BATCH_LOCK)
            /\ slots' = 0
            /\ left' = 0
            /\ users_to_process' = <<>>
            /\ started' = 0
            /\ cycle0' = [active |-> 0, qsize |-> 0]
            /\ UNCHANGED pc
    /\ UNCHANGED <<ACTIVE_USERS, WAITING_QUEUE, position, outcome,
                   enqueued, popped, admits, releases, put_index, work_run, notify_raised>>

\* bot.py:460, 440-441: await asyncio.sleep(0.1), then the next iteration
\* enters `async with BATCH_LOCK`.
WorkerIdle ==
    /\ wpc = "w_sleep01"
    /\ wpc' = "w_lock"
    /\ BATCH_LOCK' = Acquire(BATCH_LOCK, WorkerTask)
    /\ UNCHANGED <<ACTIVE_USERS, WAITING_QUEUE, reqVars, slots, left, users_to_process,
                   started, cycle0, enqueued, popped, admits, releases, put_index, work_run, notify_raised>>

\* asyncio.Lock.acquire cancelled: the waiter's future leaves the deque.
Withdraw(L, t) == [L EXCEPT !.waiters = SelectSeq(@, LAMBDA w : w # t)]

\* Variant of WorkerCancel: a cancellation during the sleep inside the lock
\* ends the task without leaving the `async with`.
WorkerCancel_keeps_lock ==
    /\ wpc \in {"w_start", "w_lock", "w_sleep05", "w_sleep01"}
    /\ wpc' = "w_cancelled"
    /\ BATCH_LOCK' = IF wpc = "w_sleep05" THEN BATCH_LOCK
                     ELSE IF Holds(WorkerTask) THEN Release(BATCH_LOCK)
                     ELSE Withdraw(BATCH_LOCK, WorkerTask)
    /\ cycle0' = [active |-> 0, qsize |-> 0]
    /\ UNCHANGED <<ACTIVE_USERS, WAITING_QUEUE, reqVars, slots, left, users_to_process,
                   started, enqueued, popped, admits, releases, put_index, work_run, notify_raised>>

\* bot.py:440-460: batch_worker's task is cancelled.  CancelledError is raised
\* at the await the task is suspended on: before its first step (nothing has
\* run), in BATCH_LOCK.acquire (441: the waiter is withdrawn, and a wake-up
\* already received is passed on to the next waiter), in sleep(0.5) (443:
\* the `async with` exits and releases the lock) or in sleep(0.1) (460).  No
\* handler catches it, the task ends.  Lines 446-458 have no await.
WorkerCancel ==
    /\ wpc \in {"w_start", "w_lock", "w_sleep05", "w_sleep01"}
    /\ wpc' = "w_cancelled"
    /\ BATCH_LOCK' = IF Holds(WorkerTask) THEN Release(BATCH_LOCK)
                     ELSE Withdraw(BATCH_LOCK, WorkerTask)
    /\ cycle0' = [active |-> 0, qsize |-> 0]
    /\ UNCHANGED <<ACTIVE_USERS, WAITING_QUEUE, reqVars, slots, left, users_to_process,
                   started, enqueued, popped, admits, releases, put_index, work_run, notify_raised>>

\* bot.py:457-458: asyncio.create_task raises for the next entry of
\* users_to_process.  Nothing in batch_worker catches the exception: it leaves
\* the `for`, the `async with` (the lock is released) and the `while True`, and
\* the task ends.  The entries not yet started stay counted.
WorkerSpawnFails ==
    /\ wpc = "w_spawn"
    /\ started < Len(users_to_process)
    /\ wpc' = "w_dead"
    /\ BATCH_LOCK' = Release(BATCH_LOCK)
    /\ slots' = 0
    /\ left' = 0
    /\ users_to_process' = <<>>
    /\ started' = 0
    /\ cycle0' = [active |-> 0, qsize |-> 0]
    /\ UNCHANGED <<ACTIVE_USERS, WAITING_QUEUE, reqVars,
                   enqueued, popped, admits, releases, put_index, work_run, notify_raised>>

-----------------------------------------------------------------------------
\* Every step of request r after it reached the gate.
RequestStep(r) ==
    \/ SearchCheck(r)
    \/ \E u \in Users : SearchPut(r, u)
    \/ SearchQsize(r)
    \/ \E ok \in BOOLEAN : SearchNotify(r, ok)
    \/ SearchSleepDelete(r)
    \/ SearchAdmit(r)
    \/ \E x \in Exits : SearchWork(r, x)
    \/ \E ok \in BOOLEAN : SearchExcept(r, ok)
    \/ SearchRelease(r)
    \/ \E x \in Exits : ProcessWork(r, x)
    \/ ProcessRelease(r)

\* The steps of request r other than the end of its awaited work (the
\* delivery of search(), 1929-1971, and the sleep of process_user_request, 466).
NonWorkStep(r) ==
    \/ SearchCheck(r)
    \/ \E u \in Users : SearchPut(r, u)
    \/ SearchQsize(r)
    \/ \E ok \in BOOLEAN : SearchNotify(r, ok)
    \/ SearchSleepDelete(r)
    \/ SearchAdmit(r)
    \/ \E ok \in BOOLEAN : SearchExcept(r, ok)
    \/ SearchRelease(r)
    \/ ProcessRelease(r)

\* Every step of batch_worker.
WorkerStep ==
    \/ WorkerAcquire
    \/ WorkerCheck
    \/ WorkerNoCapacity
    \/ WorkerSlots
    \/ WorkerPop
    \/ WorkerSpawn
    \/ WorkerIdle

Next ==
    \/ \E r \in Requests : Arrive(r)
    \/ \E r \in Requests : RequestStep(r)
    \/ WorkerStep

Spec == Init /\ [][Next]_vars

\* The event loop runs every task that can run; awaited calls and sleeps end.
\* Arrivals are not forced.
FairSpec ==
    /\ Spec
    /\ \A r \in Requests : WF_vars(RequestStep(r))
    /\ WF_vars(WorkerStep)

\* The event loop runs every task that can run, but the awaited work of a
\* request (search()'s delivery, process_user_request's sleep) may never end.
HangSpec ==
    /\ Spec
    /\ \A r \in Requests : WF_vars(NonWorkStep(r))
    /\ WF_vars(WorkerStep)

\* The program with a cancellation of the dispatch loop's task at any of its
\* suspension points; the tasks that remain run as in FairSpec.
StopNext == Next \/ WorkerCancel

StopSpec ==
    /\ Init /\ [][StopNext]_vars
    /\ \A r \in Requests : WF_vars(RequestStep(r))
    /\ WF_vars(WorkerStep)

\* The program with a create_task call of the dispatch loop that may raise.
FaultNext == Next \/ WorkerSpawnFails

FaultSpec == Init /\ [][FaultNext]_vars

\* The program with search() calls that return before the gate.
RejectNext == Next \/ \E r \in Requests, why \in RejectReasons : Reject(r, why)

RejectSpec == Init /\ [][RejectNext]_vars

-----------------------------------------------------------------------------
(* Properties *)

\* Requests that have reached the gate's lock.
Arrived == {r \in Requests : pc[r] # "idle"}

\* C1: in every reachable state, every intermediate step of a dispatch cycle
\* included, 0 <= ACTIVE_USERS <= BATCH_SIZE.
C1_CapacityInvariant == 0 <= ACTIVE_USERS /\ ACTIVE_USERS <= BATCH_SIZE

\* The dispatch loop is in the middle of its pop loop, has popped an entry and
\* the counter stands at capacity.
C1_Witness ==
    /\ wpc = "w_pop"
    /\ Len(users_to_process) >= 1
    /\ left >= 1
    /\ WAITING_QUEUE # <<>>
    /\ ACTIVE_USERS = BATCH_SIZE - 1

\* C2: every admission is followed by exactly one decrement, however the
\* wrapped work exits: no request is admitted twice, none decrements without
\* having been admitted or more than once, and a task that has ended has
\* decremented exactly once.
C2_ExactlyOneRelease ==
    \A r \in Requests :
        /\ admits[r] <= 1
        /\ releases[r] <= admits[r]
        /\ pc[r] = "done" => admits[r] = 1 /\ releases[r] = 1

\* A request whose work raised and whose except handler raised again has
\* ended, with its one decrement made.
C2_Witness ==
    \E r \in Requests :
        /\ pc[r] = "done"
        /\ outcome[r] = "handler_raised"
        /\ releases[r] = 1

\* C3: under fairness every admitted request is eventually followed by its
\* decrement, and the system settles with ACTIVE_USERS = 0 and an empty queue
\* once the arrivals have stopped.
C3_NoLeak ==
    /\ \A r \in Requests : (admits[r] = 1) ~> (releases[r] = 1)
    /\ <>[](ACTIVE_USERS = 0 /\ WAITING_QUEUE = <<>>)

\* Every request arrived, one of them went through the queue, all released.
C3_Witness ==
    /\ Arrived = Requests
    /\ popped # <<>>
    /\ \A r \in Requests : releases[r] = 1
    /\ ACTIVE_USERS = 0
    /\ WAITING_QUEUE = <<>>

\* C4: the entries popped by the dispatch loop are, in order, a prefix of the
\* entries enqueued by the gate.
C4_FifoRelease ==
    /\ Len(popped) <= Len(enqueued)
    /\ \A k \in 1..Len(popped) : popped[k] = enqueued[k]

\* Two entries were enqueued one after the other and both were popped.
C4_Witness == Len(popped) >= 2 /\ Len(enqueued) >= 2

\* C5: the position given to a queued requester is the place its entry took
\* in the queue at its insertion: the queue length right after the append.
C5_PositionCorrect ==
    \A r \in Requests :
        position[r] # 0 \/ pc[r] \in {"s_notify", "s_sleep5", "queued"}
            => position[r] = put_index[r] /\ position[r] >= 1

\* The gate has returned position 1 to the second requester ever enqueued,
\* the dispatch loop having popped the first one before.
C5_Witness ==
    \E r \in Requests :
        /\ pc[r] = "queued"
        /\ position[r] = 1
        /\ Len(enqueued) = 2
        /\ enqueued[2] = r
        /\ Len(popped) = 1

\* The owner of the lock is suspended in a network call or a sleep.
HolderSuspended ==
    \/ \E r \in Requests : Holds(r) /\ pc[r] \in {"s_notify", "s_sleep5"}
    \/ Holds(WorkerTask) /\ wpc = "w_sleep05"

\* C6: with a requester waiting in the queue, neither a freeing decrement nor
\* the dispatch loop's next iteration ever waits for the lock behind an owner
\* that is suspended in a sleep or a network call (a wait longer than a
\* check-and-mutate step).
C6_PromptDispatch ==
    ~ /\ WAITING_QUEUE # <<>>
      /\ HolderSuspended
      /\ \/ \E r \in Requests : pc[r] \in {"s_flock", "p_flock"} /\ Waiting(r)
         \/ Waiting(WorkerTask)

\* C7: once the gate has seen ACTIVE_USERS < BATCH_SIZE, no other task changes
\* ACTIVE_USERS or the queue before the gate's increment, and the increment
\* raises ACTIVE_USERS by exactly one and leaves the queue unchanged.
C7_DirectAdmitAtomic ==
    [][\A r \in Requests :
          pc[r] = "s_inc" =>
              /\ ACTIVE_USERS < BATCH_SIZE
              /\ WAITING_QUEUE' = WAITING_QUEUE
              /\ IF pc'[r] = "s_inc"
                 THEN ACTIVE_USERS' = ACTIVE_USERS
                 ELSE /\ pc'[r] = "s_work"
                      /\ ACTIVE_USERS' = ACTIVE_USERS + 1
                      /\ admits'[r] = 1]_vars

\* The gate admitted a request directly and thereby filled the last slot.
C7_Witness ==
    \E r \in Requests :
        /\ pc[r] = "s_work"
        /\ admits[r] = 1
        /\ put_index[r] = 0
        /\ ACTIVE_USERS = BATCH_SIZE

\* The gate phases of the overflow path.
OverflowPcs == {"s_put", "s_qsize", "s_notify", "s_sleep5"}

\* C8: a gate call that saw ACTIVE_USERS >= BATCH_SIZE appends exactly one
\* entry, its own, at the tail of the queue, leaves the earlier entries and
\* ACTIVE_USERS as they were, and starts no processing for the requester.
C8_OverflowFrame ==
    [][\A r \in Requests :
          pc[r] \in OverflowPcs =>
              /\ ACTIVE_USERS >= BATCH_SIZE
              /\ ACTIVE_USERS' = ACTIVE_USERS
              /\ admits'[r] = 0
              /\ pc'[r] \in OverflowPcs \cup {"queued"}
              /\ IF pc[r] = "s_put" /\ pc'[r] # "s_put"
                 THEN /\ Len(WAITING_QUEUE') = Len(WAITING_QUEUE) + 1
                      /\ SubSeq(WAITING_QUEUE', 1, Len(WAITING_QUEUE)) = WAITING_QUEUE
                      /\ WAITING_QUEUE'[Len(WAITING_QUEUE')].req = r
                 ELSE WAITING_QUEUE' = WAITING_QUEUE]_vars

\* The gate has returned from the overflow path with its entry appended
\* behind an earlier one.
C8_Witness ==
    \E r \in Requests :
        /\ pc[r] = "queued"
        /\ Len(WAITING_QUEUE) = 2
        /\ WAITING_QUEUE[2].req = r
        /\ admits[r] = 0

\* Requests the gate has admitted directly, and requests it has queued.
Admitted == {r \in Requests : admits[r] = 1 /\ put_index[r] = 0}
Queued == {r \in Requests : position[r] # 0}

\* C9: as long as no request has completed, min(K, BATCH_SIZE) of the K
\* requests that passed the gate are admitted, they are the first ones to
\* pass, and the others hold the positions 1, 2, ... in the order in which
\* they passed, none repeated or skipped.
C9_BurstOutcome ==
    (\A r \in Requests : releases[r] = 0) =>
        /\ Cardinality(Admitted) <= BATCH_SIZE
        /\ Queued # {} => Cardinality(Admitted) = BATCH_SIZE
        /\ \A a \in Admitted, q \in Queued : a < q
        /\ {position[q] : q \in Queued} = 1..Cardinality(Queued)
        /\ \A q1, q2 \in Queued : q1 < q2 => position[q1] < position[q2]

\* Four requesters passed the gate with no completion: two admitted, then
\* Queued(1) and Queued(2) in the order of arrival.
C9_Witness ==
    /\ \A r \in Requests : releases[r] = 0
    /\ Cardinality(Admitted) = BATCH_SIZE
    /\ \E q1, q2 \in Requests :
          /\ q1 < q2
          /\ pc[q1] = "queued" /\ position[q1] = 1
          /\ pc[q2] = "queued" /\ position[q2] = 2

\* The positions of a task between its admission and its decrement.
InFlightPcs == {"s_work", "s_except", "s_flock", "popped", "p_work", "p_flock"}

\* C10: ACTIVE_USERS is the number of requests admitted and not yet
\* finalized; it rises by one only when the gate admits or the dispatch loop
\* pops, and falls by one only when a request's finalization runs.
C10_CounterMeaning ==
    /\ [](ACTIVE_USERS = Cardinality({r \in Requests : pc[r] \in InFlightPcs}))
    /\ [][ACTIVE_USERS' # ACTIVE_USERS =>
            \/ /\ ACTIVE_USERS' = ACTIVE_USERS + 1
               /\ \E r \in Requests :
                     \/ pc[r] = "s_inc" /\ pc'[r] = "s_work"
                     \/ wpc = "w_pop" /\ pc[r] = "queued" /\ pc'[r] = "popped"
            \/ /\ ACTIVE_USERS' = ACTIVE_USERS - 1
               /\ \E r \in Requests :
                     pc[r] \in {"s_flock", "p_flock"} /\ pc'[r] = "done"]_vars

\* Requests admitted by the gate and by the dispatch loop are in flight
\* together, and one more has already been finalized.
C10_Witness ==
    /\ \E r \in Requests : pc[r] \in {"s_work", "s_flock"}
    /\ \E r \in Requests : pc[r] \in {"p_work", "p_flock"}
    /\ \E r \in Requests : pc[r] = "done"
    /\ ACTIVE_USERS = BATCH_SIZE

\* Positions of search() between the entry and the exit of its first
\* `async with BATCH_LOCK`, and of batch_worker inside its `async with`.
GateLockedPcs == {"s_put", "s_qsize", "s_notify", "s_sleep5", "s_inc"}
WorkerLockedPcs == {"w_sleep05", "w_slots", "w_pop", "w_spawn"}

\* C11: every task that stands at a statement reading or writing ACTIVE_USERS
\* or the queue owns BATCH_LOCK, at most one task stands inside such a region,
\* and every step that reads or changes ACTIVE_USERS or the queue is taken by
\* the owner of the lock.
C11_GuardedAccess ==
    /\ [](/\ \A r \in Requests : pc[r] \in GateLockedPcs => Holds(r)
          /\ wpc \in WorkerLockedPcs => Holds(WorkerTask)
          /\ Cardinality({r \in Requests : pc[r] \in GateLockedPcs})
               + (IF wpc \in WorkerLockedPcs THEN 1 ELSE 0) <= 1)
    /\ [][/\ \A r \in Requests :
                pc[r] \in {"s_lock", "s_flock", "p_flock"} /\ pc'[r] # pc[r] => Holds(r)
          /\ wpc = "w_lock" /\ wpc' # "w_lock" => Holds(WorkerTask)
          /\ ACTIVE_USERS' # ACTIVE_USERS \/ WAITING_QUEUE' # WAITING_QUEUE =>
                \/ Holds(WorkerTask) /\ workerVars' # workerVars
                \/ \E r \in Requests : Holds(r) /\ pc'[r] # pc[r]]_vars

\* The dispatch loop pops an entry inside the lock while a gate call and a
\* finalization wait for it.
C11_Witness ==
    /\ wpc = "w_pop"
    /\ users_to_process # <<>>
    /\ \E r \in Requests : pc[r] = "s_lock" /\ Waiting(r)
    /\ \E r \in Requests : pc[r] \in {"s_flock", "p_flock"} /\ Waiting(r)

\* C12: no search() task is suspended in the network calls or the sleep of
\* the queue-position notification while it owns BATCH_LOCK.
C12_GateNotSuspendedInLock ==
    \A r \in Requests : pc[r] \in {"s_notify", "s_sleep5"} => ~Holds(r)

\* C13: the dispatch loop does not own BATCH_LOCK while it sleeps the
\* no-capacity delay.
C13_WorkerSleepsUnlocked == wpc = "w_sleep05" => ~Holds(WorkerTask)

\* C14: every admitted request, admitted by the gate or promoted from the
\* queue by the dispatch loop, has had its lookup-and-delivery work run by the
\* time it is released.  process_user_request (462-471) gets only the user id
\* and sleeps 0.1 s: a promoted request is released with no delivery.
C14_WorkRunBeforeRelease ==
    \A r \in Requests : releases[r] = 1 => r \in work_run

\* C15: once the dispatch loop has been cancelled at a suspension point, it
\* neither owns nor waits for BATCH_LOCK, no entry is popped and counted
\* without a started unit, ACTIVE_USERS is the number of requests in flight,
\* the queue holds exactly the entries put and not popped, and every request
\* admitted and not yet released makes its one decrement afterwards.
C15_CancelConsistent ==
    /\ [](wpc = "w_cancelled" =>
            /\ ~Holds(WorkerTask) /\ ~Waiting(WorkerTask)
            /\ users_to_process = <<>>
            /\ \A r \in Requests : pc[r] # "popped"
            /\ ACTIVE_USERS = Cardinality({r \in Requests : admits[r] = 1 /\ releases[r] = 0})
            /\ Len(WAITING_QUEUE) = Len(enqueued) - Len(popped)
            /\ \A k \in 1..Len(WAITING_QUEUE) :
                   WAITING_QUEUE[k].req = enqueued[Len(popped) + k]
            /\ \A r \in Requests : releases[r] <= admits[r] /\ admits[r] <= 1)
    /\ \A r \in Requests :
           (wpc = "w_cancelled" /\ admits[r] = 1) ~> (releases[r] = 1)

\* The loop was cancelled while a request started from the queue and one
\* admitted by the gate were outstanding and another task waited for the
\* lock; both outstanding requests have since made their decrement.
C15_Witness ==
    /\ wpc = "w_cancelled"
    /\ \E r \in Requests : pc[r] = "done" /\ r \notin work_run
    /\ \E r \in Requests : pc[r] = "done" /\ r \in work_run
    /\ \E r \in Requests : pc[r] = "queued"
    /\ ACTIVE_USERS = 0

\* C16: a create_task call that raises in the dispatch loop does not end the
\* loop, and an entry the loop popped and counted is without a unit of work
\* only while the loop is about to start it.
C16_StartFailureTolerated ==
    /\ wpc # "w_dead"
    /\ \A r \in Requests : pc[r] = "popped" => wpc \in {"w_pop", "w_spawn"}

\* C17: when the pops of a dispatch cycle are over, the cycle has taken
\* min(max(0, BATCH_SIZE - ACTIVE_USERS), qsize) entries, counted from the
\* values at the cycle's test, from the front of the queue, and has raised
\* ACTIVE_USERS by that number; a cycle that finds ACTIVE_USERS >= BATCH_SIZE
\* pops nothing and changes nothing.
C17_CycleCount ==
    /\ wpc = "w_spawn" =>
          LET free == IF BATCH_SIZE - cycle0.active > 0
                      THEN BATCH_SIZE - cycle0.active ELSE 0
              n == IF free < cycle0.qsize THEN free ELSE cycle0.qsize
          IN  /\ Len(users_to_process) = n
              /\ ACTIVE_USERS = cycle0.active + n
              /\ Len(WAITING_QUEUE) = cycle0.qsize - n
              /\ Len(popped) >= n
              /\ \A k \in 1..n :
                     users_to_process[k].req = enqueued[Len(popped) - n + k]
    /\ wpc = "w_sleep05" =>
          /\ cycle0.active >= BATCH_SIZE
          /\ ACTIVE_USERS = cycle0.active
          /\ Len(WAITING_QUEUE) = cycle0.qsize
          /\ users_to_process = <<>>

\* After one completion with one requester waiting, the cycle has popped that
\* requester: ACTIVE_USERS is back at BATCH_SIZE and the queue is empty.
C17_Witness ==
    /\ wpc = "w_spawn"
    /\ cycle0 = [active |-> BATCH_SIZE - 1, qsize |-> 1]
    /\ Len(users_to_process) = 1
    /\ ACTIVE_USERS = BATCH_SIZE
    /\ WAITING_QUEUE = <<>>
    /\ Cardinality({r \in Requests : pc[r] = "done"}) = 1

\* Positions of a request between its put and its pop by the dispatch loop.
InQueuePcs == {"s_qsize", "s_notify", "s_sleep5", "queued"}

\* C18: the queue changes only by a put of the gate at its back or by a pop
\* of the dispatch loop at its front; a request put on the queue has its one
\* entry there until the dispatch loop pops it, whatever the gate call, the
\* deletion of the notification and the finalizations of others do.
C18_OnlyWorkerRemoves ==
    /\ [](\A r \in Requests :
             pc[r] \in InQueuePcs =>
                Cardinality({k \in 1..Len(WAITING_QUEUE) : WAITING_QUEUE[k].req = r}) = 1)
    /\ [][WAITING_QUEUE' # WAITING_QUEUE =>
            \/ \E r \in Requests :
                  /\ pc[r] = "s_put" /\ pc'[r] = "s_qsize"
                  /\ Len(WAITING_QUEUE') = Len(WAITING_QUEUE) + 1
                  /\ SubSeq(WAITING_QUEUE', 1, Len(WAITING_QUEUE)) = WAITING_QUEUE
                  /\ WAITING_QUEUE'[Len(WAITING_QUEUE')].req = r
            \/ /\ wpc = "w_pop" /\ Holds(WorkerTask)
               /\ WAITING_QUEUE # <<>>
               /\ WAITING_QUEUE' = Tail(WAITING_QUEUE)]_vars

\* A request's search() call has returned after the notification was deleted,
\* another request has been finalized since, and the entry is still queued
\* behind an earlier one.
C18_Witness ==
    /\ Len(WAITING_QUEUE) = 2
    /\ pc[WAITING_QUEUE[2].req] = "queued"
    /\ pc[WAITING_QUEUE[1].req] = "queued"
    /\ \E r \in Requests : pc[r] = "done"

\* C19: the queue is not deduplicated.  Every put of the gate adds an entry,
\* also when the queue already holds the same user id; every put is an entry
\* in the queue or a pop; every popped entry is one admission of its own,
\* counted in ACTIVE_USERS until its own single decrement.
C19_NoDedup ==
    /\ [][\A r \in Requests :
             pc[r] = "s_put" /\ pc'[r] # "s_put" =>
                /\ Len(WAITING_QUEUE') = Len(WAITING_QUEUE) + 1
                /\ WAITING_QUEUE'[Len(WAITING_QUEUE')].req = r]_vars
    /\ [](/\ Len(popped) + Len(WAITING_QUEUE) = Len(enqueued)
          /\ \A i, j \in 1..Len(popped) : i # j => popped[i] # popped[j]
          /\ \A k \in 1..Len(popped) :
                /\ admits[popped[k]] = 1
                /\ releases[popped[k]] <= 1
                /\ pc[popped[k]] = "done" => releases[popped[k]] = 1
          /\ ACTIVE_USERS =
                Cardinality({r \in Requests : admits[r] = 1 /\ releases[r] = 0}))

\* Two entries with the same user id were in the queue together; one cycle of
\* the dispatch loop has popped both, counted two admissions and started two
\* units.
C19_Witness ==
    /\ wpc = "w_spawn"
    /\ cycle0 = [active |-> 0, qsize |-> 2]
    /\ Len(users_to_process) = 2
    /\ users_to_process[1].user = users_to_process[2].user
    /\ started = 2
    /\ ACTIVE_USERS = 2

\* The state of a request instance in the admission cycle, read from the
\* position of its task: before the gate's put or increment, between its put
\* and its pop, between its increment (by the gate or by the dispatch loop)
\* and the end of its work, in its finally block, and ended.
SlotState(r) ==
    IF pc[r] \in InQueuePcs THEN "Queued"
    ELSE IF pc[r] \in {"s_work", "s_except", "popped", "p_work"} THEN "Admitted"
    ELSE IF pc[r] \in {"s_flock", "p_flock"} THEN "Releasing"
    ELSE IF pc[r] = "done" THEN "Released"
    ELSE "Idle"

\* C20: a request instance goes Idle -> Queued -> Admitted -> Releasing ->
\* Released or Idle -> Admitted -> Releasing -> Released and takes no other
\* transition; the states agree with the queue and the counts (Queued: one
\* entry in the queue and not counted; Admitted and Releasing: counted once
\* and not released; Released: released once), and a released instance is
\* never admitted or released again.
C20_SlotStateMachine ==
    /\ [](\A r \in Requests :
             LET entries == Cardinality({k \in 1..Len(WAITING_QUEUE) :
                                           WAITING_QUEUE[k].req = r})
             IN  CASE SlotState(r) = "Idle" ->
                        entries = 0 /\ admits[r] = 0 /\ releases[r] = 0
                   [] SlotState(r) = "Queued" ->
                        entries = 1 /\ admits[r] = 0 /\ releases[r] = 0
                   [] SlotState(r) \in {"Admitted", "Releasing"} ->
                        entries = 0 /\ admits[r] = 1 /\ releases[r] = 0
                   [] SlotState(r) = "Released" ->
                        entries = 0 /\ admits[r] = 1 /\ releases[r] = 1)
    /\ [][\A r \in Requests :
             LET from == SlotState(r)
                 to == IF pc'[r] \in InQueuePcs THEN "Queued"
                       ELSE IF pc'[r] \in {"s_work", "s_except", "popped", "p_work"}
                            THEN "Admitted"
                       ELSE IF pc'[r] \in {"s_flock", "p_flock"} THEN "Releasing"
                       ELSE IF pc'[r] = "done" THEN "Released"
                       ELSE "Idle"
             IN  \/ to = from
                 \/ <<from, to>> \in {<<"Idle", "Queued">>, <<"Idle", "Admitted">>,
                                      <<"Queued", "Admitted">>,
                                      <<"Admitted", "Releasing">>,
                                      <<"Releasing", "Released">>}]_vars

\* One request has gone through the queue and one was admitted by the gate;
\* both are released, while a third is queued and a fourth is admitted.
C20_Witness ==
    /\ \E r \in Requests : SlotState(r) = "Released" /\ put_index[r] > 0
    /\ \E r \in Requests : SlotState(r) = "Released" /\ put_index[r] = 0
    /\ \E r \in Requests : SlotState(r) = "Queued"
    /\ \E r \in Requests : SlotState(r) = "Admitted"

\* C21: the dispatch loop does not wait for the units it starts.  Whenever it
\* is not waiting for BATCH_LOCK its next step can be taken, whatever the
\* units started earlier are doing, and it begins new iterations again and
\* again also when the work of requests never ends.
C21_LoopIndependent ==
    /\ [](wpc # "w_lock" \/ Holds(WorkerTask) => ENABLED WorkerStep)
    /\ []<>(wpc = "w_lock")
    /\ []<>(wpc # "w_lock")

\* A later cycle has popped and started a second queued request while the
\* unit started by an earlier cycle has not ended its work.
C21_Witness ==
    /\ wpc = "w_spawn"
    /\ Len(users_to_process) = 1
    /\ started = 1
    /\ Len(popped) = 2
    /\ pc[popped[1]] = "p_work"
    /\ pc[popped[2]] = "p_work"

\* C22: every entry the dispatch loop pops is handed to exactly one
\* process_user_request unit.  In a cycle the entries of users_to_process up
\* to `started` have their unit running and the others are counted and wait
\* for theirs; at the end of the second loop the units started, the entries
\* popped and the increments made in the cycle are the same number; a unit
\* starts only for the next entry of users_to_process, and an entry is popped
\* only from the queue: none is dispatched twice.
C22_OneUnitPerPop ==
    /\ [](/\ started <= Len(users_to_process)
          /\ \A k \in 1..Len(users_to_process) :
                IF k <= started
                THEN pc[users_to_process[k].req] \in {"p_work", "p_flock"}
                ELSE pc[users_to_process[k].req] = "popped"
          /\ \A r \in Requests :
                pc[r] = "popped" =>
                   Cardinality({k \in 1..Len(users_to_process) :
                                   users_to_process[k].req = r}) = 1
          /\ \A r \in Requests :
                Cardinality({k \in 1..Len(popped) : popped[k] = r}) <= 1
          /\ wpc = "w_spawn" /\ started = Len(users_to_process) =>
                /\ started = ACTIVE_USERS - cycle0.active
                /\ started = cycle0.qsize - Len(WAITING_QUEUE))
    /\ [][\A r \in Requests :
             /\ pc[r] # "p_work" /\ pc'[r] = "p_work" =>
                   /\ pc[r] = "popped" /\ wpc = "w_spawn"
                   /\ users_to_process[started + 1].req = r
                   /\ started' = started + 1
             /\ pc[r] # "popped" /\ pc'[r] = "popped" =>
                   /\ pc[r] = "queued" /\ wpc = "w_pop"
                   /\ Head(WAITING_QUEUE).req = r]_vars

\* A cycle has popped two entries and started both units; the first unit has
\* already ended its sleep and waits for the lock the loop still holds.
C22_Witness ==
    /\ wpc = "w_spawn"
    /\ Len(users_to_process) = 2
    /\ started = 2
    /\ pc[users_to_process[1].req] = "p_flock"
    /\ pc[users_to_process[2].req] = "p_work"
    /\ ACTIVE_USERS = cycle0.active + 2

\* C23: the gate puts a requester on the queue only when ACTIVE_USERS is
\* exactly BATCH_SIZE, and the counter still has that value when the
\* notification text is built and sent, so the figure shown is
\* BATCH_SIZE/BATCH_SIZE.
C23_QueuedAtCapacity ==
    /\ [](\A r \in Requests :
             pc[r] \in {"s_put", "s_qsize", "s_notify", "s_sleep5"} =>
                ACTIVE_USERS = BATCH_SIZE)
    /\ [][\A r \in Requests :
             /\ pc[r] = "s_put" /\ pc'[r] # "s_put" =>
                   ACTIVE_USERS = BATCH_SIZE /\ ACTIVE_USERS' = BATCH_SIZE
             /\ pc[r] = "s_notify" /\ pc'[r] # "s_notify" =>
                   ACTIVE_USERS = BATCH_SIZE]_vars

\* The notification of the second requester in the queue has been sent, after
\* an earlier admitted request was finalized and a queued one took its slot.
C23_Witness ==
    \E r \in Requests :
        /\ pc[r] = "s_sleep5"
        /\ position[r] = 1
        /\ Len(popped) = 1
        /\ ACTIVE_USERS = BATCH_SIZE

\* C24: the gate decides by ACTIVE_USERS alone: a request that finds
\* ACTIVE_USERS < BATCH_SIZE goes to the increment and one that finds
\* ACTIVE_USERS >= BATCH_SIZE goes to the put, whatever the queue holds.
C24_DecisionByCounterOnly ==
    [][\A r \in Requests :
          pc[r] = "s_lock" /\ pc'[r] # "s_lock" =>
             /\ ACTIVE_USERS < BATCH_SIZE => pc'[r] = "s_inc"
             /\ ACTIVE_USERS >= BATCH_SIZE => pc'[r] = "s_put"]_vars

\* A request that arrived after a queued one has been admitted by the gate
\* and is at work, while the earlier one is still in the queue.
C24_Witness ==
    \E r \in Requests :
        /\ pc[r] = "s_work"
        /\ WAITING_QUEUE # <<>>
        /\ Head(WAITING_QUEUE).req < r
        /\ pc[Head(WAITING_QUEUE).req] = "queued"

\* C25: a search() call that returns at one of the checks before the gate
\* changes neither ACTIVE_USERS nor the queue, never requests or owns
\* BATCH_LOCK, and is never queued, admitted or released.
C25_RejectFrame ==
    /\ [](\A r \in Requests :
             pc[r] = "rejected" =>
                /\ ~Holds(r) /\ ~Waiting(r)
                /\ admits[r] = 0 /\ releases[r] = 0
                /\ \A k \in 1..Len(enqueued) : enqueued[k] # r
                /\ \A k \in 1..Len(WAITING_QUEUE) : WAITING_QUEUE[k].req # r)
    /\ [][\A r \in Requests :
             /\ pc[r] # "rejected" /\ pc'[r] = "rejected" =>
                   /\ pc[r] = "idle"
                   /\ UNCHANGED <<ACTIVE_USERS, WAITING_QUEUE, BATCH_LOCK>>
             /\ pc[r] = "rejected" => pc'[r] = "rejected"]_vars

\* A call was rejected while the counter stood at capacity with a requester
\* queued and the lock owned by the gate call of another request.
C25_Witness ==
    \E r \in Requests :
        /\ pc[r] = "rejected"
        /\ r < MaxRequests
        /\ ACTIVE_USERS = BATCH_SIZE
        /\ WAITING_QUEUE # <<>>
        /\ \E q \in Requests : q > r /\ pc[q] = "s_sleep5"

\* C26: when sending the queue notification raises, the step that ends the
\* gate call releases BATCH_LOCK and leaves ACTIVE_USERS and the queue, with
\* the requester's entry, unchanged; the entry stays until it is popped, and
\* the requester is afterwards dispatched and released, exactly once.
C26_NotifyFailureHarmless ==
    /\ [][\A r \in Requests :
             r \notin notify_raised /\ r \in notify_raised' =>
                /\ pc[r] = "s_notify" /\ Holds(r)
                /\ BATCH_LOCK'.owner # r
                /\ \A k \in 1..Len(BATCH_LOCK'.waiters) : BATCH_LOCK'.waiters[k] # r
                /\ ACTIVE_USERS' = ACTIVE_USERS
                /\ WAITING_QUEUE' = WAITING_QUEUE
                /\ \E k \in 1..Len(WAITING_QUEUE') : WAITING_QUEUE'[k].req = r]_vars
    /\ [](\A r \in notify_raised :
             /\ admits[r] <= 1 /\ releases[r] <= admits[r]
             /\ admits[r] = 0 =>
                   Cardinality({k \in 1..Len(WAITING_QUEUE) :
                                   WAITING_QUEUE[k].req = r}) = 1)
    /\ \A r \in Requests : (r \in notify_raised) ~> (releases[r] = 1)

\* A requester whose notification raised has been popped, started and
\* released.
C26_Witness ==
    \E r \in notify_raised :
        /\ pc[r] = "done"
        /\ admits[r] = 1
        /\ releases[r] = 1
        /\ ACTIVE_USERS < BATCH_SIZE

\* The tasks that use BATCH_LOCK.
Tasks == Requests \cup {WorkerTask}

\* C27: no deadlock on BATCH_LOCK.  A task owns or awaits the lock only at
\* the positions inside or in front of an `async with`, never both and never
\* twice; a task that has left its `async with` by its end, by the early
\* return, by `continue` or by an exception does not own it; and every task
\* that owns the lock gives it up.
C27_NoLockDeadlock ==
    /\ [](/\ \A r \in Requests :
                /\ Holds(r) => pc[r] \in GateLockedPcs \cup {"s_lock", "s_flock", "p_flock"}
                /\ Waiting(r) => pc[r] \in {"s_lock", "s_flock", "p_flock"}
          /\ Holds(WorkerTask) => wpc \in WorkerLockedPcs \cup {"w_lock"}
          /\ Waiting(WorkerTask) => wpc = "w_lock"
          /\ \A t \in Tasks :
                /\ ~(Holds(t) /\ Waiting(t))
                /\ Cardinality({k \in 1..Len(BATCH_LOCK.waiters) :
                                   BATCH_LOCK.waiters[k] = t}) <= 1
          /\ BATCH_LOCK.owner \in Tasks \cup {0}
          /\ BATCH_LOCK.owner = 0 => BATCH_LOCK.waiters = <<>>)
    /\ \A t \in Tasks : Holds(t) ~> ~Holds(t)
    /\ \A t \in Tasks : Waiting(t) ~> Holds(t)

\* A gate call has ended by an exception and another by its early return,
\* both without the lock, which a finalization now owns while the dispatch
\* loop, back from `continue`, waits for it.
C27_Witness ==
    /\ \E r \in notify_raised : pc[r] = "queued"
    /\ \E r \in Requests \ notify_raised : pc[r] = "queued"
    /\ \E r \in Requests : pc[r] = "s_flock" /\ Holds(r)
    /\ wpc = "w_lock" /\ Waiting(WorkerTask)

\* Requests whose work has ended and whose finally block is at its
\* `async with BATCH_LOCK`.
Finalizing == {r \in Requests : pc[r] \in {"s_flock", "p_flock"}}

PassedGate ==
    {r \in Requests : \/ put_index[r] > 0
                      \/ pc[r] \in {"s_work", "s_except", "s_flock"}
                      \/ pc[r] = "done" /\ put_index[r] = 0}

\* C29: in every state the requests that have passed the gate are as many as
\* the entries in the queue, plus ACTIVE_USERS, plus the finalizations
\* completed; none is lost and none is counted twice.
C29_Conservation ==
    /\ Cardinality(PassedGate) =
          Len(WAITING_QUEUE) + ACTIVE_USERS
             + Cardinality({r \in Requests : releases[r] >= 1})
    /\ \A r \in Requests : releases[r] <= 1
    /\ \A r \in PassedGate :
          Cardinality({k \in 1..Len(WAITING_QUEUE) : WAITING_QUEUE[k].req = r})
             + (IF admits[r] = 1 /\ releases[r] = 0 THEN 1 ELSE 0)
             + releases[r] = 1

\* Requests are in the queue, in flight and finalized at once, one of those
\* in flight having come through the queue.
C29_Witness ==
    /\ WAITING_QUEUE # <<>>
    /\ ACTIVE_USERS = BATCH_SIZE
    /\ \E r \in Requests : releases[r] = 1
    /\ \E r \in Requests : pc[r] = "p_work"
    /\ Cardinality(PassedGate) = MaxRequests

\* C30: when a dispatch cycle that found ACTIVE_USERS < BATCH_SIZE has started
\* its units and releases the lock, the queue is empty or ACTIVE_USERS =
\* BATCH_SIZE: no slot is left free while a requester waits in the queue.
C30_WorkConserving ==
    /\ [](wpc = "w_spawn" /\ started = Len(users_to_process) =>
            /\ cycle0.active < BATCH_SIZE
            /\ WAITING_QUEUE = <<>> \/ ACTIVE_USERS = BATCH_SIZE)
    /\ [][wpc = "w_spawn" /\ wpc' # "w_spawn" =>
            /\ BATCH_LOCK.owner = WorkerTask /\ BATCH_LOCK'.owner # WorkerTask
            /\ WAITING_QUEUE' = <<>> \/ ACTIVE_USERS' = BATCH_SIZE]_vars

\* A cycle that found one free slot and two requesters waiting has popped and
\* started the first; the second stays in the queue with the counter at
\* capacity.
C30_Witness ==
    /\ wpc = "w_spawn"
    /\ cycle0 = [active |-> BATCH_SIZE - 1, qsize |-> 2]
    /\ started = 1
    /\ Len(users_to_process) = 1
    /\ Len(WAITING_QUEUE) = 1
    /\ ACTIVE_USERS = BATCH_SIZE
====
